---------------------------- MODULE Spec2Model ----------------------------
(***************************************************************************)
(* Model of anomaly_detector.py: DataProcessor, AnomalyDetector,           *)
(* ScoreTransformer and AnomalyDetectionSystem.process_data.               *)
(*                                                                         *)
(* Raw decision-function scores are integers (only their order is used by  *)
(* the code).  A transformed score is the exact fraction num/den (den > 0). *)
(* Contributions are integers counted in units of 0.005, so that the       *)
(* default min_contribution 0.01 is 2 units.                               *)
(* Python's 0-based positions are 1-based here.                            *)
(* The statistics a StandardScaler holds are named by the table they were  *)
(* computed from.  An exception is the record [stage, type] of the stage   *)
(* that raised it and its Python type.                                     *)
(***************************************************************************)
EXTENDS Integers, Sequences, FiniteSets, TLC

\* ------------------------------------------------------------------ bounds
MaxScore == 2
MaxBatch == 4
MaxFeatures == 8
MaxSamples == 1
MaxCells == 8
MaxExtraRows == 1
MaxCols == 2
MaxCalls == 4
MaxTableRows == 2
MaxMatrixCells == 4

\* ------------------------------------------------------- program constants
MinTrainingHours == 72
DefaultMinContribution == 2
TopK == 7
PercentScale == 100

ColumnNames ==
    <<"f1", "f2", "f3", "f4", "f5", "f6", "f7", "f8", "f9", "f10", "f11", "f12">>

ScoreValues == 0..MaxScore
ContribValues == {-3, 0, 2}
MinContributions == {DefaultMinContribution, 2 * DefaultMinContribution}
ArgsortKinds == {"stable", "unstable"}
NoValue == <<>>

\* ----------------------------------------------------------------- helpers
Abs(x) == IF x < 0 THEN -x ELSE x

Min(a, b) == IF a <= b THEN a ELSE b

Range(s) == {s[i] : i \in 1..Len(s)}

Reverse(s) == [i \in 1..Len(s) |-> s[Len(s) + 1 - i]]

Take(s, k) == [i \in 1..Min(k, Len(s)) |-> s[i]]

Repeat(v, n) == [i \in 1..n |-> v]

SeqsUpTo(S, n) == UNION {[1..k -> S] : k \in 0..n}

Frac(n, d) == [num |-> n, den |-> d]

FracLeq(a, b) == a.num * b.den <= b.num * a.den

\* np.clip(x, lo, hi) on a fraction, lo and hi integers.
Clip(x, lo, hi) ==
    IF x.num < lo * x.den THEN Frac(lo * x.den, x.den)
    ELSE IF x.num > hi * x.den THEN Frac(hi * x.den, x.den)
    ELSE x

\* -------------------------------------------- ScoreTransformer.transform_scores
\* np.sum(mask): the number of True entries of a boolean array.
RECURSIVE NpSumUpTo(_, _)
NpSumUpTo(mask, k) ==
    IF k = 0 THEN 0
    ELSE NpSumUpTo(mask, k - 1) + (IF mask[k] THEN 1 ELSE 0)

NpSum(mask) == NpSumUpTo(mask, Len(mask))

\* score_range <= score: the element-wise comparison.
LeqMaskStrict(score_range, score) ==
    [k \in 1..Len(score_range) |-> score_range[k] < score]
LeqMask(score_range, score) ==
    [k \in 1..Len(score_range) |-> score_range[k] <= score]

\* percentile_rank = np.sum(score_range <= score) / len(score_range) * 100
PercentileRankOfOthers(score_range, score) ==
    Frac((NpSum(LeqMask(score_range, score)) - 1) * PercentScale,
         Len(score_range))
PercentileRank(score_range, score) ==
    Frac(NpSum(LeqMask(score_range, score)) * PercentScale, Len(score_range))

\* transformed_scores[i] = 100 - percentile_rank
OneTransformedNoInvert(score_range, score) ==
    PercentileRank(score_range, score)
OneTransformed(score_range, score) ==
    LET p == PercentileRank(score_range, score)
    IN  Frac(PercentScale * p.den - p.num, p.den)

transform_scores_linear(scores) ==
    [i \in 1..Len(scores) |-> Frac(PercentScale - scores[i] * PercentScale, 1)]
transform_scores(scores) ==
    [i \in 1..Len(scores) |->
        Clip(OneTransformed(scores, scores[i]), 0, PercentScale)]


\* -------------------------------------------- ScoreTransformer.get_top_features
\* np.where(mask)[0]: the positions of the True entries, ascending.
RECURSIVE WhereUpTo(_, _)
WhereUpTo(mask, k) ==
    IF k = 0 THEN <<>>
    ELSE IF mask[k] THEN Append(WhereUpTo(mask, k - 1), k)
    ELSE WhereUpTo(mask, k - 1)

Where(mask) == WhereUpTo(mask, Len(mask))

\* np.argsort(keys) with the default kind='quicksort': ascending by key.  The
\* default sort is not a stable one, so the order it leaves equal keys in is
\* a property of the numpy build: "stable" keeps equal keys in index order
\* (the insertion-sort path), "unstable" leaves them in the opposite order.
ArgsortBefore(keys, i, j, kind) ==
    \/ keys[i] < keys[j]
    \/ /\ keys[i] = keys[j]
       /\ IF kind = "stable" THEN i <= j ELSE i >= j

RECURSIVE ArgsortFrom(_, _, _)
ArgsortFrom(keys, remaining, kind) ==
    IF remaining = {} THEN <<>>
    ELSE LET m == CHOOSE i \in remaining :
                    \A j \in remaining : ArgsortBefore(keys, i, j, kind)
         IN  <<m>> \o ArgsortFrom(keys, remaining \ {m}, kind)

Argsort(keys, kind) == ArgsortFrom(keys, 1..Len(keys), kind)

\* sample_contributions = np.abs(contributions[i, :])
SampleContributions(row) == [j \in 1..Len(row) |-> Abs(row[j])]

\* significant_features: the threshold mask, or all True when it is empty.
SignificantFeaturesStrict(sample_contributions, min_contribution) ==
    LET mask == [j \in 1..Len(sample_contributions) |->
                    sample_contributions[j] > min_contribution]
    IN  IF NpSum(mask) = 0
        THEN [j \in 1..Len(sample_contributions) |-> TRUE]
        ELSE mask
SignificantFeatures(sample_contributions, min_contribution) ==
    LET mask == [j \in 1..Len(sample_contributions) |->
                    sample_contributions[j] >= min_contribution]
    IN  IF NpSum(mask) = 0
        THEN [j \in 1..Len(sample_contributions) |-> TRUE]
        ELSE mask

\* sorted_feature_indices = feature_indices[np.argsort(feature_contributions)[::-1]]
SortedFeatureIndicesAscending(sample_contributions, significant_features, kind) ==
    LET feature_indices == Where(significant_features)
        feature_contributions ==
            [k \in 1..Len(feature_indices) |->
                sample_contributions[feature_indices[k]]]
        sorted_indices == Argsort(feature_contributions, kind)
    IN  [k \in 1..Len(sorted_indices) |-> feature_indices[sorted_indices[k]]]
SortedFeatureIndices(sample_contributions, significant_features, kind) ==
    LET feature_indices == Where(significant_features)
        feature_contributions ==
            [k \in 1..Len(feature_indices) |->
                sample_contributions[feature_indices[k]]]
        sorted_indices == Reverse(Argsort(feature_contributions, kind))
    IN  [k \in 1..Len(sorted_indices) |-> feature_indices[sorted_indices[k]]]

\* while len(top_7_features) < 7: top_7_features.append("")
PadTopFeaturesInFront(top_7_features) ==
    IF Len(top_7_features) < TopK
    THEN Repeat("", TopK - Len(top_7_features)) \o top_7_features
    ELSE top_7_features
PadTopFeaturesNone(top_7_features) == top_7_features
PadTopFeatures(top_7_features) ==
    IF Len(top_7_features) < TopK
    THEN top_7_features \o Repeat("", TopK - Len(top_7_features))
    ELSE top_7_features

\* One iteration of the loop over the samples.
TopFeaturesOfRow(row, names, min_contribution, kind) ==
    LET sample_contributions == SampleContributions(row)
        significant_features ==
            SignificantFeatures(sample_contributions, min_contribution)
        sorted_feature_indices ==
            SortedFeatureIndices(sample_contributions, significant_features, kind)
        top_7_indices == Take(sorted_feature_indices, TopK)
        top_7_features ==
            [k \in 1..Len(top_7_indices) |-> names[top_7_indices[k]]]
    IN  PadTopFeatures(top_7_features)

get_top_features(contribs, names, min_contribution, kind) ==
    [i \in 1..Len(contribs) |->
        TopFeaturesOfRow(contribs[i], names, min_contribution, kind)]


\* ------------------------------------------------------------------- state
VARIABLES
    pc,                 \* position in process_data, or "called" / "api"
    error,              \* the exception that ended the run: [stage, type]
    raised,             \* what the callers of process_data and main received
    stages,             \* the stages of process_data completed, in order
    df,                 \* the table load_and_validate_data returned
    feature_names,      \* DataProcessor.feature_names
    scaler,             \* DataProcessor.scaler: what it was last fit on
    training_data,      \* rows of the training window
    analysis_data,      \* rows of the analysis window
    is_fitted,          \* AnomalyDetector.is_fitted
    model,              \* AnomalyDetector.model
    train_completed,    \* a train call has returned normally
    calls,              \* the calls made on the AnomalyDetector, with results
    raw_scores,
    transformed_scores,
    contributions,
    min_contribution,
    top_features,
    output_df,          \* the columns of the output table
    file,               \* the file at output_csv_path
    argsort_kind,       \* how this numpy build orders equal keys
    warnings,           \* the warnings _validate_results logged
    scaling,            \* the last preprocess_features call and the last fit
    input_csv,          \* the file at input_csv_path, as read
    first,              \* the finished run before this one, if any
    features            \* the matrix a caller passed for attribution

ctlVars == <<pc, error, stages, raised>>
procVars == <<df, feature_names, scaler, training_data, analysis_data>>
detVars == <<is_fitted, model, train_completed>>
dataVars ==
    <<raw_scores, transformed_scores, contributions, min_contribution,
      top_features>>
outVars == <<output_df, file>>
logVars == <<warnings, scaling, input_csv, first, features>>
vars ==
    <<ctlVars, procVars, detVars, calls, dataVars, outVars, argsort_kind,
      logVars>>

\* AnomalyDetectionSystem(contamination=0.1, random_state=42), in hundredths.
Contamination == 10
RandomState == 42
TempContamination == 5
MeanThreshold == 10
MaxThreshold == 25

NoError == [stage |-> "none", type |-> "none"]

\* Nothing was raised to the caller of process_data or to the caller of main.
NotRaised == [process_data |-> NoError, main |-> NoError]

\* No preprocess_features call yet, and no fit of the scaler.
NoScaling == [last |-> NoValue, last_fit |-> "unfit"]

Init ==
    /\ pc = "start"
    /\ error = NoError
    /\ stages = <<>>
    /\ df = NoValue
    /\ feature_names = <<>>
    /\ scaler = "unfit"
    /\ training_data = NoValue
    /\ analysis_data = NoValue
    /\ is_fitted = FALSE
    /\ model = [contamination |-> Contamination, random_state |-> RandomState,
                fitted_on |-> "nothing"]
    /\ train_completed = FALSE
    /\ calls = <<>>
    /\ raw_scores = NoValue
    /\ transformed_scores = NoValue
    /\ contributions = NoValue
    /\ min_contribution = DefaultMinContribution
    /\ top_features = NoValue
    /\ output_df = NoValue
    /\ file = "absent"
    /\ argsort_kind \in ArgsortKinds
    /\ raised = NotRaised
    /\ warnings = {}
    /\ scaling = NoScaling
    /\ input_csv = NoValue
    /\ first = NoValue
    /\ features = NoValue

\* ------------------------------------------------------------ input tables
\* A CSV file: whether it can be read, whether it has a 'Time' column, the
\* number of rows in the training window and in the rest of the analysis
\* window, and the kind of each other column: numeric and varying within the
\* training window, numeric with one value in every row, numeric with one
\* value in the rows of the training window and another in a later row, or
\* not numeric.  The training window is one row short, just long enough, or
\* MaxExtraRows longer; the columns of a kind are next to each other.
ColumnKinds == {"numeric", "constant", "train_constant", "text"}

KindOrder == <<"constant", "numeric", "train_constant", "text">>

KindSeqs ==
    {kinds \in SeqsUpTo(ColumnKinds, MaxCols) :
        \A i, j \in 1..Len(kinds) :
            i < j => \E a, b \in 1..Len(KindOrder) :
                        a <= b /\ KindOrder[a] = kinds[i] /\ KindOrder[b] = kinds[j]}

CsvFiles ==
    {csv \in [exists : BOOLEAN,
              hasTime : BOOLEAN,
              nTrain : {MinTrainingHours - 1, MinTrainingHours,
                        MinTrainingHours + MaxExtraRows},
              nLate : {0, MaxExtraRows},
              kinds : KindSeqs] :
        csv.nLate = 0 =>
            \A j \in 1..Len(csv.kinds) : csv.kinds[j] # "train_constant"}

\* The raw scores a fitted forest may give n rows (the first row free and the
\* others alike, or all rows different), and the contributions it may give n
\* rows of nf features (the first row free, the others alike).
RawScoreBatches(n) ==
    {<<a>> \o Repeat(1, n - 1) : a \in ScoreValues} \cup {[i \in 1..n |-> i]}

ContributionMatrices(n, nf) ==
    {<<row>> \o Repeat([j \in 1..nf |-> 0], n - 1) :
        row \in [1..nf -> ContribValues]}

\* The files a run may read: any file, and in a second run the file of the
\* first.
InputFiles == IF first = NoValue THEN CsvFiles ELSE {input_csv}

\* The forest is built from the contamination and the random_state given to
\* the constructor: with the same two and the same training rows, the forest
\* of this run is the forest of the earlier run.
SameForestNever(m, earlier) == FALSE
SameForest(m, earlier) == earlier # NoValue /\ m = earlier.model

\* What decision_function returns in this run, for the rows and for the
\* perturbed rows.
ForestScores(n) ==
    IF SameForest(model, first) THEN {first.raw_scores} ELSE RawScoreBatches(n)

ForestContributions(n, nf) ==
    IF SameForest(model, first) THEN {first.contributions}
    ELSE ContributionMatrices(n, nf)

\* ---------------------------------------------------------- process_data
\* The handlers an exception passes on its way out.  Each one logs or prints,
\* then re-raises with a bare 'raise': the exception object it caught.
LoadExcept(e) == e

ProcessDataExceptWraps(e) == [stage |-> e.stage, type |-> "RuntimeError"]
ProcessDataExcept(e) == e

MainExcept(e) == e

\* A stage raises: the exception leaves load_and_validate_data (when raised
\* there), then process_data, then main.
Fail(stage, type) ==
    LET e == [stage |-> stage, type |-> type]
        out == ProcessDataExcept(IF stage = "load" THEN LoadExcept(e) ELSE e)
    IN  /\ pc' = "failed"
        /\ error' = e
        /\ raised' = [process_data |-> out, main |-> MainExcept(out)]
        /\ UNCHANGED stages

Reach(newpc, stage) ==
    /\ pc' = newpc
    /\ stages' = Append(stages, stage)
    /\ UNCHANGED <<error, raised>>

\* The columns left after the numeric ones whose std() over all rows of the
\* table is 0 are dropped.
RECURSIVE KeptColumns(_, _)
KeptColumns(kinds, k) ==
    IF k = 0 THEN <<>>
    ELSE IF kinds[k] = "constant" THEN KeptColumns(kinds, k - 1)
    ELSE Append(KeptColumns(kinds, k - 1),
                [name |-> ColumnNames[k], kind |-> kinds[k]])

\* Step 1: DataProcessor.load_and_validate_data
LoadAndValidateData ==
    /\ pc = "start"
    /\ \E csv \in InputFiles :
        IF ~csv.exists
        THEN /\ Fail("load", "IOError")
             /\ UNCHANGED <<df, feature_names, input_csv>>
        ELSE IF ~csv.hasTime
        THEN /\ Fail("load", "ValueError")
             /\ UNCHANGED <<df, feature_names, input_csv>>
        ELSE /\ input_csv' = csv
             /\ df' = [nTrain |-> csv.nTrain, nLate |-> csv.nLate,
                       columns |-> KeptColumns(csv.kinds, Len(csv.kinds))]
             /\ feature_names' =
                    [j \in 1..Len(df'.columns) |-> df'.columns[j].name]
             /\ Reach("loaded", "Loaded")
    /\ UNCHANGED <<scaler, training_data, analysis_data, detVars, calls,
                   dataVars, outVars, argsort_kind, warnings, scaling, first,
                   features>>

\* Step 2: DataProcessor.split_data
TooFewRowsLeq(training_hours) == training_hours <= MinTrainingHours
TooFewRows(training_hours) == training_hours < MinTrainingHours

SplitData ==
    /\ pc = "loaded"
    /\ LET training_hours == df.nTrain
       IN  IF TooFewRows(training_hours)
           THEN /\ Fail("split", "ValueError")
                /\ UNCHANGED <<training_data, analysis_data>>
           ELSE /\ training_data' = [rows |-> df.nTrain]
                /\ analysis_data' = [rows |-> df.nTrain + df.nLate]
                /\ Reach("split", "Split")
    /\ UNCHANGED <<df, feature_names, scaler, detVars, calls, dataVars,
                   outVars, argsort_kind, logVars>>

\* df[self.feature_names].values can be scaled: at least one column, all numeric.
Scalable(columns) ==
    /\ Len(columns) > 0
    /\ \A j \in 1..Len(columns) : columns[j].kind # "text"

\* preprocess_features(df, fit_scaler) on the table 'table' with the feature
\* columns 'cols', for the frozen columns 'frozen' and a scaler last fit on
\* 'fitted_on'.  df[self.feature_names] raises KeyError when a frozen column
\* is absent and leaves other columns out; fit_transform computes the
\* statistics of this table and stores them; transform uses the stored ones
\* and needs a fitted scaler.
preprocess_features_refits(frozen, table, cols, fit_scaler, fitted_on) ==
    IF \E j \in 1..Len(frozen) : frozen[j].name \notin cols
    THEN [result |-> "KeyError", used |-> "nothing", scaler |-> fitted_on]
    ELSE IF ~Scalable(frozen)
    THEN [result |-> "ValueError", used |-> "nothing", scaler |-> fitted_on]
    ELSE [result |-> "ok", used |-> table, scaler |-> table]
preprocess_features(frozen, table, cols, fit_scaler, fitted_on) ==
    IF \E j \in 1..Len(frozen) : frozen[j].name \notin cols
    THEN [result |-> "KeyError", used |-> "nothing", scaler |-> fitted_on]
    ELSE IF ~fit_scaler /\ fitted_on = "unfit"
    THEN [result |-> "NotFitted", used |-> "nothing", scaler |-> fitted_on]
    ELSE IF ~Scalable(frozen)
    THEN [result |-> "ValueError", used |-> "nothing", scaler |-> fitted_on]
    ELSE IF fit_scaler
    THEN [result |-> "ok", used |-> table, scaler |-> table]
    ELSE [result |-> "ok", used |-> fitted_on, scaler |-> fitted_on]

\* The record of a preprocess_features call, and the table of the last
\* successful call with fit_scaler=True.
Scaled(table, cols, fit_scaler, p) ==
    /\ scaler' = p.scaler
    /\ scaling' =
        [last |-> [table |-> table, columns |-> cols, fit_scaler |-> fit_scaler,
                   result |-> p.result, before |-> scaler, used |-> p.used,
                   after |-> p.scaler],
         last_fit |-> IF fit_scaler /\ p.result = "ok"
                      THEN table ELSE scaling.last_fit]

\* Step 3, first call: preprocess_features(training_data, fit_scaler=True)
PreprocessTraining ==
    /\ pc = "split"
    /\ LET p == preprocess_features(df.columns, "training",
                                    Range(feature_names), TRUE, scaler)
       IN  /\ Scaled("training", Range(feature_names), TRUE, p)
           /\ IF p.result = "ok"
              THEN /\ pc' = "pre_train"
                   /\ UNCHANGED <<error, stages, raised>>
              ELSE Fail("preprocess", p.result)
    /\ UNCHANGED <<df, feature_names, training_data, analysis_data, detVars,
                   calls, dataVars, outVars, argsort_kind, warnings, input_csv,
                   first, features>>

\* Step 3, second call: preprocess_features(analysis_data, fit_scaler=False)
PreprocessAnalysis ==
    /\ pc = "pre_train"
    /\ LET p == preprocess_features(df.columns, "analysis",
                                    Range(feature_names), FALSE, scaler)
       IN  /\ Scaled("analysis", Range(feature_names), FALSE, p)
           /\ IF p.result = "ok"
              THEN Reach("preprocessed", "Preprocessed")
              ELSE Fail("preprocess", p.result)
    /\ UNCHANGED <<df, feature_names, training_data, analysis_data, detVars,
                   calls, dataVars, outVars, argsort_kind, warnings, input_csv,
                   first, features>>

\* AnomalyDetector.train: the temporary forest, then the main one.  The
\* temporary forest is a local of train; the number of training rows it
\* marks as anomalies (none, or some) is logged when it is not 0.
TrainOutcomes == {"ok", "temp_fit_fails", "main_fit_fails"}

TempChecks ==
    {c \in [outcome : TrainOutcomes, contamination : {TempContamination},
            anomaly_count : {0, 1}] :
        c.outcome = "temp_fit_fails" => c.anomaly_count = 0}

DetectorTrainDeploysTemp(outcome, data) ==
    IF outcome = "ok"
    THEN /\ model' = [contamination |-> TempContamination,
                      random_state |-> model.random_state, fitted_on |-> data]
         /\ is_fitted' = TRUE
         /\ train_completed' = TRUE
    ELSE UNCHANGED <<is_fitted, model, train_completed>>
TrainSetsFittedAlways(outcome, data) ==
    /\ is_fitted' = TRUE
    /\ IF outcome = "ok"
       THEN /\ model' = [model EXCEPT !.fitted_on = data]
            /\ train_completed' = TRUE
       ELSE UNCHANGED <<model, train_completed>>
DetectorTrain(outcome, data) ==
    IF outcome = "ok"
    THEN /\ model' = [model EXCEPT !.fitted_on = data]
         /\ is_fitted' = TRUE
         /\ train_completed' = TRUE
    ELSE UNCHANGED <<is_fitted, model, train_completed>>

\* Step 4
Train ==
    /\ pc = "preprocessed"
    /\ \E outcome \in TrainOutcomes :
        /\ DetectorTrain(outcome, "training")
        /\ IF outcome = "ok"
           THEN Reach("trained", "Trained")
           ELSE Fail("train", "LibraryError")
    /\ UNCHANGED <<procVars, calls, dataVars, outVars, argsort_kind, logVars>>

\* predict_anomaly_scores: the is_fitted guard, then decision_function.
predict_anomaly_scores(fitted, lib_ok) ==
    IF ~fitted THEN "NotFitted"
    ELSE IF lib_ok THEN "ok" ELSE "LibraryError"

\* calculate_feature_contributions: the is_fitted guard, then the scoring passes.
calculate_feature_contributions(fitted, lib_ok) ==
    IF ~fitted THEN "NotFitted"
    ELSE IF lib_ok THEN "ok" ELSE "LibraryError"

\* Step 5
PredictAnomalyScores ==
    /\ pc = "trained"
    /\ \E lib_ok \in BOOLEAN :
        LET result == predict_anomaly_scores(is_fitted, lib_ok)
        IN  IF result = "ok"
            THEN /\ raw_scores' \in ForestScores(analysis_data.rows)
                 /\ Reach("scored", "Scored")
            ELSE /\ Fail("score", result)
                 /\ UNCHANGED raw_scores
    /\ UNCHANGED <<procVars, detVars, calls, transformed_scores, contributions,
                   min_contribution, top_features, outVars, argsort_kind, logVars>>

\* Step 6: transform_scores
TransformScores ==
    /\ pc = "scored"
    /\ transformed_scores' = transform_scores(raw_scores)
    /\ Reach("transformed", "Transformed")
    /\ UNCHANGED <<procVars, detVars, calls, raw_scores, contributions,
                   min_contribution, top_features, outVars, argsort_kind, logVars>>

\* Step 7
CalculateFeatureContributionsEarly ==
    /\ pc = "scored"
    /\ \E lib_ok \in BOOLEAN :
        LET result == calculate_feature_contributions(is_fitted, lib_ok)
        IN  IF result = "ok"
            THEN /\ contributions' \in
                     ForestContributions(analysis_data.rows, Len(feature_names))
                 /\ Reach("attributed", "Attributed")
            ELSE /\ Fail("attribute", result)
                 /\ UNCHANGED contributions
    /\ UNCHANGED <<procVars, detVars, calls, raw_scores, transformed_scores,
                   min_contribution, top_features, outVars, argsort_kind, logVars>>
CalculateFeatureContributions ==
    /\ pc = "transformed"
    /\ \E lib_ok \in BOOLEAN :
        LET result == calculate_feature_contributions(is_fitted, lib_ok)
        IN  IF result = "ok"
            THEN /\ contributions' \in
                     ForestContributions(analysis_data.rows, Len(feature_names))
                 /\ Reach("attributed", "Attributed")
            ELSE /\ Fail("attribute", result)
                 /\ UNCHANGED contributions
    /\ UNCHANGED <<procVars, detVars, calls, raw_scores, transformed_scores,
                   min_contribution, top_features, outVars, argsort_kind, logVars>>

\* Step 8: get_top_features, with the default min_contribution
GetTopFeatures ==
    /\ pc = "attributed"
    /\ top_features' = get_top_features(contributions, feature_names,
                                        DefaultMinContribution, argsort_kind)
    /\ Reach("selected", "Selected")
    /\ UNCHANGED <<procVars, detVars, calls, raw_scores, transformed_scores,
                   contributions, min_contribution, outVars, argsort_kind, logVars>>

\* Step 9: output_df = analysis_data.copy() with the score column and the
\* seven top-feature columns added.
TopFeatureColumnNames ==
    <<"top_feature_1", "top_feature_2", "top_feature_3", "top_feature_4",
      "top_feature_5", "top_feature_6", "top_feature_7">>

AnalysisColumns(names) == [c \in {"Time"} \cup Range(names) |-> "data"]

WithColumn(table, name, values) ==
    [c \in DOMAIN table \cup {name} |-> IF c = name THEN values ELSE table[c]]

RECURSIVE WithTopFeatureColumns(_, _, _)
WithTopFeatureColumns(table, top, k) ==
    IF k = 0 THEN table
    ELSE WithColumn(WithTopFeatureColumns(table, top, k - 1),
                    TopFeatureColumnNames[k],
                    [r \in 1..Len(top) |-> top[r][k]])

OutputTableSixColumns(names, scores, top) ==
    WithTopFeatureColumns(
        WithColumn(AnalysisColumns(names), "Abnormality_score", scores),
        top, Len(TopFeatureColumnNames) - 1)
OutputTable(names, scores, top) ==
    WithTopFeatureColumns(
        WithColumn(AnalysisColumns(names), "Abnormality_score", scores),
        top, Len(TopFeatureColumnNames))

BuildOutput ==
    /\ pc = "selected"
    /\ IF \E r \in 1..Len(top_features) :
            Len(top_features[r]) < Len(TopFeatureColumnNames)
       THEN /\ Fail("build", "IndexError")
            /\ UNCHANGED output_df
       ELSE /\ output_df' =
                OutputTable(feature_names, transformed_scores, top_features)
            /\ pc' = "built"
            /\ UNCHANGED <<error, stages, raised>>
    /\ UNCHANGED <<procVars, detVars, calls, dataVars, file, argsort_kind, logVars>>

\* Step 10: output_df.to_csv(output_csv_path).  A write that fails leaves no
\* file or a partly written one.
WriteOutcomes == {"ok", "fails_no_file", "fails_partial"}

SaveResults ==
    /\ pc = "built"
    /\ \E outcome \in WriteOutcomes :
        IF outcome = "ok"
        THEN /\ file' = "written"
             /\ pc' = "saved"
             /\ UNCHANGED <<error, stages, raised>>
        ELSE /\ file' = IF outcome = "fails_partial" THEN "partial" ELSE file
             /\ Fail("write", "IOError")
    /\ UNCHANGED <<procVars, detVars, calls, dataVars, output_df, argsort_kind, logVars>>

\* Step 11: _validate_results.  The rows of the table are in time order, so
\* the rows of the training period are its first training_rows rows.
RECURSIVE SumOfNumerators(_, _)
SumOfNumerators(scores, k) ==
    IF k = 0 THEN 0 ELSE SumOfNumerators(scores, k - 1) + scores[k].num

\* The two threshold checks on the training-period scores (all of one
\* denominator): each logs a warning.  Mean and max of no rows are NaN, and
\* a comparison with NaN is False.
AdvisoryWarnings(training_scores) ==
    LET n == Len(training_scores)
    IN  IF n = 0 THEN {}
        ELSE {w \in {"mean"} :
                SumOfNumerators(training_scores, n) >
                    MeanThreshold * training_scores[1].den * n}
             \cup
             {w \in {"max"} :
                \E i \in 1..n :
                    training_scores[i].num >
                        MaxThreshold * training_scores[i].den}

RequiredColumnsSix ==
    {"Abnormality_score"} \cup
        Range(Take(TopFeatureColumnNames, Len(TopFeatureColumnNames) - 1))
RequiredColumns == {"Abnormality_score"} \cup Range(TopFeatureColumnNames)

MissingColumns(table) == {c \in RequiredColumns : c \notin DOMAIN table}

\* The score lookup (KeyError without the column), the threshold checks, then
\* the required-columns check.
validate_results_raising(table, training_rows) ==
    IF "Abnormality_score" \notin DOMAIN table
    THEN [result |-> "KeyError", logged |-> {}]
    ELSE LET logged == AdvisoryWarnings(
                   Take(table["Abnormality_score"], training_rows))
         IN  [result |-> IF logged # {} \/ MissingColumns(table) # {}
                         THEN "ValueError" ELSE "ok",
              logged |-> logged]
validate_results(table, training_rows) ==
    IF "Abnormality_score" \notin DOMAIN table
    THEN [result |-> "KeyError", logged |-> {}]
    ELSE [result |-> IF MissingColumns(table) # {} THEN "ValueError" ELSE "ok",
          logged |-> AdvisoryWarnings(
                         Take(table["Abnormality_score"], training_rows))]

ValidateResults ==
    /\ pc = "saved"
    /\ LET v == validate_results(output_df, training_data.rows)
       IN  /\ warnings' = v.logged
           /\ IF v.result = "ok"
              THEN Reach("done", "Validated")
              ELSE Fail("validate", v.result)
    /\ UNCHANGED <<procVars, detVars, calls, dataVars, outVars, argsort_kind,
                   scaling, input_csv, first, features>>

\* A second run of main on the same file, after a run that ended normally:
\* a new AnomalyDetectionSystem, the same numpy, the files as the first run
\* left them.
RunAgain ==
    /\ pc = "done"
    /\ first = NoValue
    /\ first' = [output_df |-> output_df, model |-> model,
                 raw_scores |-> raw_scores, contributions |-> contributions]
    /\ pc' = "start"
    /\ error' = NoError
    /\ stages' = <<>>
    /\ raised' = NotRaised
    /\ df' = NoValue
    /\ feature_names' = <<>>
    /\ scaler' = "unfit"
    /\ training_data' = NoValue
    /\ analysis_data' = NoValue
    /\ is_fitted' = FALSE
    /\ model' = [contamination |-> Contamination, random_state |-> RandomState,
                 fitted_on |-> "nothing"]
    /\ train_completed' = FALSE
    /\ raw_scores' = NoValue
    /\ transformed_scores' = NoValue
    /\ contributions' = NoValue
    /\ min_contribution' = DefaultMinContribution
    /\ top_features' = NoValue
    /\ output_df' = NoValue
    /\ warnings' = {}
    /\ scaling' = NoScaling
    /\ UNCHANGED <<calls, file, argsort_kind, input_csv, features>>

\* ------------------------------------------------- calls on the components
\* ScoreTransformer.transform_scores called on any batch.
CallTransformScores ==
    /\ pc = "start"
    /\ \E scores \in SeqsUpTo(ScoreValues, MaxBatch) :
        /\ raw_scores' = scores
        /\ transformed_scores' = transform_scores(scores)
    /\ pc' = "called"
    /\ UNCHANGED <<error, stages, raised, procVars, detVars, calls, contributions,
                   min_contribution, top_features, outVars, argsort_kind, logVars>>

\* ScoreTransformer.get_top_features called on any contribution matrix, with
\* as many feature names as the matrix has columns.
CallGetTopFeatures ==
    /\ pc = "start"
    /\ \E n \in 0..MaxSamples, nf \in 0..MaxFeatures :
        /\ n * nf <= MaxCells
        /\ \E matrix \in [1..n -> [1..nf -> ContribValues]],
              mc \in MinContributions :
            /\ contributions' = matrix
            /\ feature_names' = Take(ColumnNames, nf)
            /\ min_contribution' = mc
            /\ top_features' = get_top_features(matrix, Take(ColumnNames, nf),
                                                mc, argsort_kind)
    /\ pc' = "called"
    /\ UNCHANGED <<error, stages, raised, df, scaler, training_data, analysis_data,
                   detVars, calls, raw_scores, transformed_scores, outVars>>
    /\ UNCHANGED <<argsort_kind, logVars>>

\* _validate_results called on any table with a 'Time' column: any choice of
\* the required columns and of one more top-feature column, a few scores,
\* and any number of its rows in the training period.
ExtraTopFeatureColumn == "top_feature_8"

AdvisoryScoreValues == {0, 20, 50}

ValidatedTables ==
    {[c \in {"Time"} \cup cols |->
        IF c = "Abnormality_score" THEN scores ELSE "data"] :
        cols \in SUBSET (RequiredColumns \cup {ExtraTopFeatureColumn}),
        scores \in {[i \in DOMAIN vs |-> Frac(vs[i], 1)] :
                     vs \in SeqsUpTo(AdvisoryScoreValues, MaxTableRows)}}

CallValidateResults ==
    /\ pc = "start"
    /\ \E table \in ValidatedTables, training_rows \in 0..MaxTableRows :
        LET v == validate_results(table, training_rows)
        IN  /\ output_df' = table
            /\ training_data' = [rows |-> training_rows]
            /\ warnings' = v.logged
            /\ error' = IF v.result = "ok" THEN NoError
                        ELSE [stage |-> "validate", type |-> v.result]
    /\ pc' = "called"
    /\ UNCHANGED <<stages, raised, df, feature_names, scaler, analysis_data,
                   detVars, calls, dataVars, file, argsort_kind, scaling,
                   input_csv, first, features>>

\* DataProcessor.preprocess_features called, after load_and_validate_data,
\* on any table: one of two tables of values, with any set of feature columns.
ScaledTables == {"A", "B"}

ApiPreprocess ==
    /\ pc \in {"loaded", "papi"}
    /\ \E table \in ScaledTables,
          cols \in SUBSET Range(Take(ColumnNames, MaxCols + 1)),
          fit_scaler \in BOOLEAN :
        Scaled(table, cols, fit_scaler,
               preprocess_features(df.columns, table, cols, fit_scaler, scaler))
    /\ pc' = "papi"
    /\ UNCHANGED <<error, stages, raised, df, feature_names, training_data,
                   analysis_data, detVars, calls, dataVars, outVars,
                   argsort_kind, warnings, input_csv, first, features>>

\* AnomalyDetector.calculate_feature_contributions on a matrix of n rows.
\* An entry e of the matrix stands for the value e / n, so that the mean of a
\* column is the entry (sum of the column) / n.  decision_function scores
\* each row by itself; the forest here gives different rows different
\* scores, so that two score vectors agree only if the scored rows agree.
FeatureValues == {0, 1}

MatrixShapes ==
    {sh \in (1..MaxMatrixCells) \X (1..MaxMatrixCells) :
        sh[1] * sh[2] <= MaxMatrixCells}

FeatureMatrices ==
    UNION {[1..sh[1] -> [1..sh[2] -> {v * sh[1] : v \in FeatureValues}]] :
            sh \in MatrixShapes}

RECURSIVE DecisionScore(_, _)
DecisionScore(row, k) ==
    IF k = 0 THEN 0
    ELSE DecisionScore(row, k - 1) * (MaxMatrixCells + 1) + row[k]

DecisionFunction(matrix) ==
    [r \in 1..Len(matrix) |-> DecisionScore(matrix[r], Len(matrix[r]))]

RECURSIVE ColumnSum(_, _, _)
ColumnSum(matrix, i, r) ==
    IF r = 0 THEN 0 ELSE ColumnSum(matrix, i, r - 1) + matrix[r][i]

\* np.mean(features[:, i]), as an entry
NpMean(matrix, i) == ColumnSum(matrix, i, Len(matrix)) \div Len(matrix)

\* One iteration of the loop over the features, on the arrays 'features' and
\* 'contributions': perturbed_features is a copy of features with column i
\* set to its mean; column i of contributions is filled.
PerturbStepInPlace(st, i, baseline_scores) ==
    LET col_mean == NpMean(st.features, i)
        perturbed_features ==
            [r \in 1..Len(st.features) |->
                [st.features[r] EXCEPT ![i] = col_mean]]
        perturbed_scores == DecisionFunction(perturbed_features)
    IN  [features |-> perturbed_features,
         contributions |->
            [r \in 1..Len(st.features) |->
                [st.contributions[r] EXCEPT
                    ![i] = baseline_scores[r] - perturbed_scores[r]]]]
PerturbStep(st, i, baseline_scores) ==
    LET col_mean == NpMean(st.features, i)
        perturbed_features ==
            [r \in 1..Len(st.features) |->
                [st.features[r] EXCEPT ![i] = col_mean]]
        perturbed_scores == DecisionFunction(perturbed_features)
    IN  [features |-> st.features,
         contributions |->
            [r \in 1..Len(st.features) |->
                [st.contributions[r] EXCEPT
                    ![i] = baseline_scores[r] - perturbed_scores[r]]]]

RECURSIVE PerturbLoop(_, _, _)
PerturbLoop(st, i, baseline_scores) ==
    IF i = 0 THEN st
    ELSE PerturbStep(PerturbLoop(st, i - 1, baseline_scores), i, baseline_scores)

\* The arrays when the method returns: the caller's features and the result.
FeatureContributions(matrix) ==
    LET n_features == Len(matrix[1])
        zeros == [r \in 1..Len(matrix) |-> [i \in 1..n_features |-> 0]]
    IN  PerturbLoop([features |-> matrix, contributions |-> zeros],
                    n_features, DecisionFunction(matrix))

\* The method called on a new detector or after one train call.
CallFeatureContributions ==
    /\ pc \in {"start", "api"}
    /\ Len(calls) <= 1
    /\ \E matrix \in FeatureMatrices, lib_ok \in BOOLEAN :
        LET result == calculate_feature_contributions(is_fitted, lib_ok)
            out == FeatureContributions(matrix)
        IN  IF result = "ok"
            THEN /\ contributions' = out.contributions
                 /\ features' = [before |-> matrix, after |-> out.features,
                                 result |-> result]
            ELSE /\ features' = [before |-> matrix, after |-> matrix,
                                 result |-> result]
                 /\ UNCHANGED contributions
    /\ pc' = "called"
    /\ UNCHANGED <<error, stages, raised, procVars, detVars, calls, raw_scores,
                   transformed_scores, min_contribution, top_features, outVars,
                   argsort_kind, warnings, scaling, input_csv, first>>

\* The AnomalyDetector's methods called in any order.
Called(op, result, check) ==
    /\ calls' = Append(calls, [op |-> op, result |-> result,
                               returned |-> IF result = "ok" /\ op # "train"
                                            THEN "scores" ELSE "nothing",
                               temp_check |-> check,
                               model |-> model'])
    /\ pc' = "api"
    /\ UNCHANGED <<error, stages, raised, procVars, dataVars, outVars, argsort_kind, logVars>>

ApiTrain ==
    /\ pc \in {"start", "api"}
    /\ Len(calls) < MaxCalls
    /\ \E check \in TempChecks :
        /\ DetectorTrain(check.outcome, "api")
        /\ Called("train",
                  IF check.outcome = "ok" THEN "ok" ELSE "LibraryError", check)

ApiPredict ==
    /\ pc \in {"start", "api"}
    /\ Len(calls) < MaxCalls
    /\ UNCHANGED detVars
    /\ \E lib_ok \in BOOLEAN :
        Called("predict", predict_anomaly_scores(is_fitted, lib_ok), NoValue)

ApiContributions ==
    /\ pc \in {"start", "api"}
    /\ Len(calls) < MaxCalls
    /\ UNCHANGED detVars
    /\ \E lib_ok \in BOOLEAN :
        Called("contributions",
               calculate_feature_contributions(is_fitted, lib_ok), NoValue)

\* ---------------------------------------------------------- specifications
Next ==
    \/ LoadAndValidateData
    \/ SplitData
    \/ PreprocessTraining
    \/ PreprocessAnalysis
    \/ Train
    \/ PredictAnomalyScores
    \/ TransformScores
    \/ CalculateFeatureContributions
    \/ GetTopFeatures
    \/ BuildOutput
    \/ SaveResults
    \/ ValidateResults

Spec == Init /\ [][Next]_vars

\* transform_scores alone, and beside process_data.
SpecTransform == Init /\ [][CallTransformScores]_vars

NextScores == Next \/ CallTransformScores

SpecScores == Init /\ [][NextScores]_vars

\* get_top_features alone, and beside process_data.
SpecTop == Init /\ [][CallGetTopFeatures]_vars

NextSlots == Next \/ CallGetTopFeatures

SpecSlots == Init /\ [][NextSlots]_vars

\* _validate_results, called directly or by process_data.
NextValidate == Next \/ CallValidateResults

SpecValidate == Init /\ [][NextValidate]_vars

\* process_data run once, or twice on the same file.
NextTwoRuns == Next \/ RunAgain

SpecTwoRuns == Init /\ [][NextTwoRuns]_vars

\* calculate_feature_contributions on a detector trained or not.
NextAttribute == ApiTrain \/ CallFeatureContributions

SpecAttribute == Init /\ [][NextAttribute]_vars

\* preprocess_features, called directly or by process_data.
NextProcessor == Next \/ ApiPreprocess

SpecProcessor == Init /\ [][NextProcessor]_vars

\* The AnomalyDetector's methods, called directly or by process_data.
NextDetector == Next \/ ApiTrain \/ ApiPredict \/ ApiContributions

SpecDetector == Init /\ [][NextDetector]_vars

\* ------------------------------------------------------------------ claims
InPercentRange(x) == x.den > 0 /\ 0 <= x.num /\ x.num <= 100 * x.den

HasScoreColumn == "Abnormality_score" \in DOMAIN output_df

Transformed == Len(transformed_scores) = Len(raw_scores)

\* C1: every score transform_scores returns is in [0, 100], and so is every
\* Abnormality_score of the output table process_data builds and writes.
C1_ScoresInRange ==
    /\ \A i \in 1..Len(transformed_scores) :
        InPercentRange(transformed_scores[i])
    /\ HasScoreColumn =>
        \A i \in 1..Len(output_df["Abnormality_score"]) :
            InPercentRange(output_df["Abnormality_score"][i])

\* C1 witness: a run wrote a table whose scores include 0 and a value above 0.
C1_Witness ==
    /\ pc = "done"
    /\ file = "written"
    /\ \E i, j \in 1..Len(output_df["Abnormality_score"]) :
        /\ output_df["Abnormality_score"][i].num = 0
        /\ output_df["Abnormality_score"][j].num > 0

\* C2: within one batch, a lower raw score never gets a lower transformed
\* score: raw[i] < raw[j] implies transformed[i] >= transformed[j].
C2_RankingNotReversed ==
    Transformed =>
        \A i, j \in 1..Len(raw_scores) :
            raw_scores[i] < raw_scores[j] =>
                FracLeq(transformed_scores[j], transformed_scores[i])

\* C2 witness: a transformed batch with two rows of different raw score, the
\* lower of which got the strictly higher transformed score.
C2_Witness ==
    /\ pc = "called"
    /\ Transformed
    /\ \E i, j \in 1..Len(raw_scores) :
        /\ raw_scores[i] < raw_scores[j]
        /\ ~FracLeq(transformed_scores[i], transformed_scores[j])

RowsAtMost(i) == {k \in 1..Len(raw_scores) : raw_scores[k] <= raw_scores[i]}

\* C3: the transformed score of row i of a batch of n is exactly
\* 100 - 100 * |{k : raw[k] <= raw[i]}| / n, so equal raw scores get equal
\* transformed scores.
C3_ExactPercentile ==
    Transformed =>
        LET n == Len(raw_scores)
        IN  /\ \A i \in 1..n :
                /\ transformed_scores[i].den > 0
                /\ transformed_scores[i].num * n =
                      (100 * n - 100 * Cardinality(RowsAtMost(i)))
                          * transformed_scores[i].den
            /\ \A i, j \in 1..n :
                raw_scores[i] = raw_scores[j] =>
                    transformed_scores[i] = transformed_scores[j]

\* C3 witness: a transformed batch with two tied rows and a third, different one.
C3_Witness ==
    /\ pc = "called"
    /\ Transformed
    /\ \E i, j, k \in 1..Len(raw_scores) :
        /\ i # j
        /\ raw_scores[i] = raw_scores[j]
        /\ raw_scores[k] < raw_scores[i]

Selected == Len(top_features) = Len(contributions) /\ pc # "start"

NameOrEmpty == Range(feature_names) \cup {""}

TopFeatureColumnsOf(table) ==
    {c \in DOMAIN table : c \notin {"Time", "Abnormality_score"}
                          /\ c \notin Range(feature_names)}

\* C4: get_top_features returns exactly 7 strings for every row, each a
\* feature name or the empty string, and the output table has exactly the 7
\* columns top_feature_1..top_feature_7, filled for every row the same way.
C4_SevenSlots ==
    /\ \A r \in 1..Len(top_features) :
        /\ Len(top_features[r]) = 7
        /\ \A k \in 1..7 : top_features[r][k] \in NameOrEmpty
    /\ HasScoreColumn =>
        /\ TopFeatureColumnsOf(output_df) = Range(TopFeatureColumnNames)
        /\ Cardinality(TopFeatureColumnsOf(output_df)) = 7
        /\ \A c \in TopFeatureColumnsOf(output_df) :
            /\ Len(output_df[c]) = analysis_data.rows
            /\ \A r \in 1..Len(output_df[c]) : output_df[c][r] \in NameOrEmpty

\* C4 witness: a matrix of more than 7 features with a row of fewer than 7
\* qualifying ones, whose list holds a name and an empty slot.
C4_Witness ==
    /\ pc = "called"
    /\ Len(feature_names) > 7
    /\ \E r \in 1..Len(top_features) :
        /\ top_features[r][1] # ""
        /\ top_features[r][7] = ""

AbsOf(r, j) == Abs(contributions[r][j])

\* The features of row r that reach min_contribution, or all of them when
\* none does.
Qualifying(r) ==
    LET reach == {j \in 1..Len(contributions[r]) :
                    AbsOf(r, j) >= min_contribution}
    IN  IF reach = {} THEN 1..Len(contributions[r]) ELSE reach

IndexOfName(name) == CHOOSE j \in 1..Len(feature_names) : feature_names[j] = name

ListedSlots(r) == {k \in 1..Len(top_features[r]) : top_features[r][k] # ""}

ListedFeatures(r) == {IndexOfName(top_features[r][k]) : k \in ListedSlots(r)}

\* C5: the listed names of a row are qualifying features, in non-increasing
\* order of absolute contribution, min(7, number qualifying) of them, and no
\* qualifying feature left out has a larger absolute contribution than a
\* listed one.
C5_TopBySize ==
    Selected =>
        \A r \in 1..Len(top_features) :
            /\ \A k \in ListedSlots(r) : top_features[r][k] \in Range(feature_names)
            /\ ListedFeatures(r) \subseteq Qualifying(r)
            /\ Cardinality(ListedFeatures(r)) = Min(7, Cardinality(Qualifying(r)))
            /\ \A k, l \in ListedSlots(r) :
                k < l => AbsOf(r, IndexOfName(top_features[r][k]))
                            >= AbsOf(r, IndexOfName(top_features[r][l]))
            /\ \A j \in ListedFeatures(r) :
                \A o \in Qualifying(r) \ ListedFeatures(r) :
                    AbsOf(r, j) >= AbsOf(r, o)

\* C5 witness: a row with more than 7 features that reach the threshold, of
\* different sizes, one of which is left out.
C5_Witness ==
    /\ pc = "called"
    /\ \E r \in 1..Len(top_features) :
        /\ Cardinality(Qualifying(r)) > 7
        /\ \A j \in Qualifying(r) : AbsOf(r, j) >= min_contribution
        /\ \E j \in ListedFeatures(r), o \in Qualifying(r) \ ListedFeatures(r) :
            AbsOf(r, j) > AbsOf(r, o)

TiedSlots(r) ==
    {kl \in ListedSlots(r) \X ListedSlots(r) :
        /\ kl[1] < kl[2]
        /\ AbsOf(r, IndexOfName(top_features[r][kl[1]]))
            = AbsOf(r, IndexOfName(top_features[r][kl[2]]))}

\* C6 as stated: of two listed features with equal absolute contribution, the
\* one with the lower index in feature_names is listed first.
C6_LowerIndexFirst ==
    Selected =>
        \A r \in 1..Len(top_features) :
            \A kl \in TiedSlots(r) :
                IndexOfName(top_features[r][kl[1]])
                    < IndexOfName(top_features[r][kl[2]])

\* C6 amended: listed features with equal absolute contribution appear in
\* the reverse of the order np.argsort leaves equal keys in; where argsort
\* keeps equal keys in index order, the higher index is listed first.
C6_TiesReverseArgsort ==
    Selected =>
        \A r \in 1..Len(top_features) :
            \A kl \in TiedSlots(r) :
                IF argsort_kind = "stable"
                THEN IndexOfName(top_features[r][kl[1]])
                        > IndexOfName(top_features[r][kl[2]])
                ELSE IndexOfName(top_features[r][kl[1]])
                        < IndexOfName(top_features[r][kl[2]])

\* C6 witness: argsort keeps equal keys in index order and a row lists two
\* tied features that both reach the threshold.
C6_Witness ==
    /\ pc = "called"
    /\ argsort_kind = "stable"
    /\ \E r \in 1..Len(top_features) :
        \E kl \in TiedSlots(r) :
            AbsOf(r, IndexOfName(top_features[r][kl[1]])) >= min_contribution

Loaded == pc \notin {"start", "called", "api"} /\ df # NoValue

\* C7: a run whose training window holds fewer than 72 rows fails in
\* split_data with a ValueError, and a window of exactly 72 rows passes the
\* split; the run that failed there has fit no scaler, trained no model and
\* built or written no output.
C7_ShortTrainingWindow ==
    /\ (Loaded /\ pc # "loaded" /\ df.nTrain < 72) =>
        /\ pc = "failed"
        /\ error = [stage |-> "split", type |-> "ValueError"]
    /\ (Loaded /\ pc # "loaded" /\ df.nTrain >= 72) =>
        /\ error.stage # "split"
        /\ Len(stages) >= 2
        /\ stages[2] = "Split"
    /\ error.stage = "split" =>
        /\ df.nTrain < 72
        /\ scaler = "unfit"
        /\ ~is_fitted
        /\ ~train_completed
        /\ model.fitted_on = "nothing"
        /\ output_df = NoValue
        /\ file = "absent"

\* C7 witness: a run with 71 training rows has failed in split_data.
C7_Witness ==
    /\ pc = "failed"
    /\ error.stage = "split"
    /\ df.nTrain = 71

TrainedBefore(k) ==
    \E t \in 1..(k - 1) : calls[t].op = "train" /\ calls[t].result = "ok"

IsScoring(k) == calls[k].op \in {"predict", "contributions"}

\* The part of C8 all of whose cases hold: a scoring call before a completed
\* train fails with the not-fitted error and returns nothing, a scoring call
\* that returns scores follows a completed train, and the detector is fitted
\* only after a completed train.
C8_ScoringNeedsTraining ==
    /\ \A k \in 1..Len(calls) :
        /\ (IsScoring(k) /\ ~TrainedBefore(k)) =>
              calls[k].result = "NotFitted" /\ calls[k].returned = "nothing"
        /\ (IsScoring(k) /\ calls[k].returned = "scores") => TrainedBefore(k)
    /\ is_fitted = train_completed
    /\ pc = "api" => (is_fitted <=> TrainedBefore(Len(calls) + 1))
    /\ error.type = "NotFitted" => ~train_completed
    /\ raw_scores # NoValue /\ pc # "called" => train_completed

\* C8 as stated: the above, and a train call that fails leaves the detector
\* not fitted.
C8_FailedTrainNotFitted ==
    /\ C8_ScoringNeedsTraining
    /\ \A k \in 1..Len(calls) :
        (k = Len(calls) /\ calls[k].op = "train" /\ calls[k].result # "ok")
            => ~is_fitted

\* C8 amended: the above, and a train call that fails leaves is_fitted as it
\* was: not fitted when no train had completed, fitted when one had.
C8_FailedTrainKeepsFitted ==
    /\ C8_ScoringNeedsTraining
    /\ \A k \in 1..Len(calls) :
        (k = Len(calls) /\ calls[k].op = "train" /\ calls[k].result # "ok")
            => (is_fitted <=> TrainedBefore(k))

\* C8 witness: a scoring call was refused, a train completed, a later train
\* failed, and the detector is still fitted.
C8_Witness ==
    /\ is_fitted
    /\ Len(calls) >= 3
    /\ calls[1].result = "NotFitted"
    /\ calls[Len(calls)].op = "train"
    /\ calls[Len(calls)].result # "ok"

IsPrefix(s, t) == Len(s) <= Len(t) /\ \A i \in 1..Len(s) : s[i] = t[i]

RECURSIVE Only(_, _)
Only(s, S) ==
    IF s = <<>> THEN <<>>
    ELSE IF s[Len(s)] \in S
         THEN Append(Only(SubSeq(s, 1, Len(s) - 1), S), s[Len(s)])
         ELSE Only(SubSeq(s, 1, Len(s) - 1), S)

ClaimedOrder ==
    <<"Loaded", "Split", "Preprocessed", "Trained", "Scored", "Attributed",
      "Transformed", "Validated">>

CodeOrder ==
    <<"Loaded", "Split", "Preprocessed", "Trained", "Scored", "Transformed",
      "Attributed", "Selected", "Validated">>

ClaimedFailureStages ==
    {"load", "split", "preprocess", "train", "score", "attribute",
     "transform", "validate"}

\* C10: a run that failed at load, split, preprocess, train, score,
\* attribute, transform or validate has written no output file, and a run
\* that failed anywhere has left no complete output file.
C10_NoOutputOnFailure ==
    /\ (pc = "failed" /\ error.stage \in ClaimedFailureStages) => file = "absent"
    /\ pc = "failed" => file # "written"
    /\ file = "written" => pc \in {"saved", "done"}

\* C10 witness: a run failed in the last stage before the table is built,
\* and there is no output file.
C10_Witness ==
    /\ pc = "failed"
    /\ error.stage = "attribute"
    /\ file = "absent"

\* _validate_results has returned or raised: in a run, or called directly.
ValidateEnded ==
    \/ pc \in {"done", "called"}
    \/ pc = "failed" /\ error.stage = "validate"

HasRequiredColumns ==
    /\ "Abnormality_score" \in DOMAIN output_df
    /\ \A k \in 1..TopK : TopFeatureColumnNames[k] \in DOMAIN output_df

\* C11: the two threshold checks of _validate_results are advisory.  Whatever
\* the training-period mean and maximum are, a table that has the score column
\* and the seven top-feature columns passes, and the table and the file a
\* run has written are what they were before the validation.
C11_ThresholdsOnlyWarn ==
    /\ ValidateEnded /\ HasRequiredColumns => error = NoError
    /\ pc = "done" =>
        /\ file = "written"
        /\ output_df =
            WithTopFeatureColumns(
                WithColumn(AnalysisColumns(feature_names), "Abnormality_score",
                           transformed_scores),
                top_features, TopK)

\* C11 witness: a run ended in success although both thresholds were exceeded.
C11_Witness ==
    /\ pc = "done"
    /\ error = NoError
    /\ warnings = {"mean", "max"}

TopFeatureLike == Range(TopFeatureColumnNames) \cup {ExtraTopFeatureColumn}

ColumnsOfKind(kinds) ==
    {df.columns[j].name : j \in {k \in 1..Len(df.columns) :
                                    df.columns[k].kind \in kinds}}

NamedAsTopFeature(name) ==
    \E r \in 1..Len(top_features) : name \in Range(top_features[r])

\* C13 as stated: a column with zero variance within the training window,
\* whether or not it varies in later rows, is not in feature_names and is
\* never a top_feature value.
C13_TrainConstantExcluded ==
    Loaded =>
        \A name \in ColumnsOfKind({"constant", "train_constant"}) :
            /\ name \notin Range(feature_names)
            /\ ~NamedAsTopFeature(name)

\* C14 as stated: feature_names holds only numeric columns that are not
\* constant, a column that is not numeric is not in it, is never given to the
\* scaler and is never a top_feature value.
C14_OnlyNumericFeatures ==
    Loaded =>
        /\ \A j \in 1..Len(df.columns) :
            df.columns[j].name \in Range(feature_names) =>
                df.columns[j].kind \in {"numeric", "train_constant"}
        /\ \A name \in ColumnsOfKind({"text"}) :
            /\ name \notin Range(feature_names)
            /\ ~NamedAsTopFeature(name)

\* C15: a preprocess_features call with fit_scaler=False leaves the scaler's
\* stored statistics as they were and scales with them, and they are those of
\* the last call with fit_scaler=True.  In process_data they are the
\* statistics of the training window, before and after the analysis window
\* is preprocessed.
C15_TransformKeepsStatistics ==
    /\ scaling.last # NoValue =>
        /\ scaler = scaling.last.after
        /\ ~scaling.last.fit_scaler =>
            /\ scaling.last.after = scaling.last.before
            /\ scaling.last.result = "ok" =>
                /\ scaling.last.used = scaling.last.before
                /\ scaling.last.used = scaling.last_fit
                /\ scaling.last.used \in ScaledTables \cup {"training"}
    /\ "Preprocessed" \in Range(stages) =>
        /\ scaler = "training"
        /\ scaling.last.table = "analysis"
        /\ scaling.last.before = "training"
        /\ scaling.last.used = "training"

\* C15 witness: after a fit on one table, another table was scaled with
\* fit_scaler=False.
C15_Witness ==
    /\ pc = "papi"
    /\ scaling.last # NoValue
    /\ ~scaling.last.fit_scaler
    /\ scaling.last.result = "ok"
    /\ scaling.last.table # scaling.last.used

\* C19 as stated: preprocess_features fails whenever the feature columns of
\* the table are not exactly the frozen ones, a column too few or too many.
C19_MismatchRejected ==
    scaling.last # NoValue /\ scaling.last.table \in ScaledTables =>
        (scaling.last.columns # Range(feature_names) =>
            scaling.last.result # "ok")

OnlyColumnAtMean(matrix, r, i) ==
    [j \in 1..Len(matrix[r]) |->
        IF j = i THEN ColumnSum(matrix, i, Len(matrix)) \div Len(matrix)
        ELSE matrix[r][j]]

\* C17: for every row r and feature i, calculate_feature_contributions
\* returns the score of row r in the given matrix minus the score of row r in
\* that matrix with only column i replaced by the mean of column i of the
\* given matrix; and the caller's matrix is as it was.
C17_ContributionIsScoreDrop ==
    features # NoValue /\ features.result = "ok" =>
        /\ features.after = features.before
        /\ Len(contributions) = Len(features.before)
        /\ \A r \in 1..Len(features.before) :
            \A i \in 1..Len(features.before[r]) :
                contributions[r][i] =
                    DecisionScore(features.before[r], Len(features.before[r]))
                    - DecisionScore(OnlyColumnAtMean(features.before, r, i),
                                    Len(features.before[r]))

\* C17 witness: a matrix of two rows and two features, both columns varying,
\* got a contribution other than 0 for each feature.
C17_Witness ==
    /\ features # NoValue
    /\ features.result = "ok"
    /\ Len(features.before) = 2
    /\ Len(features.before[1]) = 2
    /\ contributions[1][1] # 0
    /\ contributions[1][2] # 0

\* C18: the check train makes with a temporary forest of contamination 0.05
\* leaves the detector's own model alone.  The model a later scoring call
\* uses has the configured contamination and seed, and train fails only when
\* a fit fails, whether the check found no anomaly or some.
C18_TempCheckLeavesModel ==
    /\ model.contamination = Contamination
    /\ model.random_state = RandomState
    /\ \A k \in 1..Len(calls) :
        /\ calls[k].model.contamination = Contamination
        /\ calls[k].model.random_state = RandomState
        /\ calls[k].returned = "scores" => calls[k].model.fitted_on # "nothing"
        /\ calls[k].op = "train" =>
            (calls[k].result = "ok" <=> calls[k].temp_check.outcome = "ok")

\* C18 witness: a train call whose check found anomalies returned normally,
\* and a later predict call scored with the configured model.
C18_Witness ==
    \E k, l \in 1..Len(calls) :
        /\ k < l
        /\ calls[k].op = "train"
        /\ calls[k].result = "ok"
        /\ calls[k].temp_check.anomaly_count > 0
        /\ calls[l].op = "predict"
        /\ calls[l].returned = "scores"
        /\ calls[l].model.contamination = Contamination

\* C20: an exception raised in a stage of process_data reaches the caller of
\* process_data and the caller of main as that exception.  After it no stage
\* runs, no stage runs twice, and a run that returns normally has completed
\* every stage without an exception.
C20_ErrorsReachCaller ==
    /\ error # NoError <=> pc = "failed"
    /\ pc = "failed" =>
        /\ raised.process_data = error
        /\ raised.main = error
    /\ pc # "failed" => raised = NotRaised
    /\ \A i, j \in 1..Len(stages) : i < j => stages[i] # stages[j]
    /\ pc = "done" => Len(stages) = Len(CodeOrder)

\* C20 witness: the ValueError for a file without a 'Time' column reached the
\* caller of main.
C20_Witness ==
    /\ pc = "failed"
    /\ error = [stage |-> "load", type |-> "ValueError"]
    /\ raised.main = error
    /\ stages = <<>>

\* The number of features of row r that count: those whose absolute
\* contribution reaches min_contribution, or all features when none does.
CountingFeatures(r) ==
    LET reaching == Cardinality({j \in 1..Len(contributions[r]) :
                        Abs(contributions[r][j]) >= min_contribution})
    IN  IF reaching = 0 THEN Len(contributions[r]) ELSE reaching

\* C21: in every row get_top_features returns, the entries that are not ""
\* come first (no "" is followed by a name), are the names of different
\* features, and are min(7, k) in number, k being the number of features
\* whose absolute contribution reaches min_contribution, or the number of
\* all features when none reaches it.
C21_NamesFormPrefix ==
    Selected =>
        \A r \in 1..Len(top_features) :
            /\ \A k \in 1..(Len(top_features[r]) - 1) :
                top_features[r][k] = "" => top_features[r][k + 1] = ""
            /\ \A k, l \in 1..Len(top_features[r]) :
                k < l /\ top_features[r][k] # "" =>
                    top_features[r][k] # top_features[r][l]
            /\ Cardinality({k \in 1..Len(top_features[r]) :
                                top_features[r][k] # ""})
                = Min(TopK, CountingFeatures(r))

\* C21 witness: a row where some features reach the threshold and some do
\* not, whose list has names first and then empty slots.
C21_Witness ==
    /\ pc = "called"
    /\ \E r \in 1..Len(top_features) :
        /\ CountingFeatures(r) > 1
        /\ CountingFeatures(r) < Len(feature_names)
        /\ CountingFeatures(r) < TopK
        /\ top_features[r][CountingFeatures(r)] # ""
        /\ top_features[r][CountingFeatures(r) + 1] = ""

LargestRaw == CHOOSE v \in Range(raw_scores) : \A w \in Range(raw_scores) : w <= v

SmallestRaw == CHOOSE v \in Range(raw_scores) : \A w \in Range(raw_scores) : v <= w

RowsAtSmallest ==
    LET smallest == SmallestRaw
    IN  {k \in 1..Len(raw_scores) : raw_scores[k] = smallest}

\* C22: in a transformed batch of n >= 1 rows, the rows with the largest raw
\* score get 0, no row gets 100, and the largest transformed score is
\* 100 - 100 * m / n, the score of the m rows with the smallest raw score;
\* when all raw scores are equal every row gets 0.
C22_LargestIsBelowHundred ==
    Transformed /\ Len(raw_scores) > 0 =>
        LET n == Len(raw_scores)
            m == Cardinality(RowsAtSmallest)
            largest == LargestRaw
            smallest == SmallestRaw
        IN  \A i \in 1..n :
                /\ transformed_scores[i].den > 0
                /\ raw_scores[i] = largest => transformed_scores[i].num = 0
                /\ transformed_scores[i].num
                      < PercentScale * transformed_scores[i].den
                /\ transformed_scores[i].num * n
                      <= (PercentScale * n - PercentScale * m)
                            * transformed_scores[i].den
                /\ raw_scores[i] = smallest =>
                      transformed_scores[i].num * n
                        = (PercentScale * n - PercentScale * m)
                            * transformed_scores[i].den

\* C22 witness: a batch of more than two rows, two of them sharing the
\* smallest raw score, whose largest transformed score is above 0.
C22_Witness ==
    /\ pc = "called"
    /\ Transformed
    /\ Len(raw_scores) > 2
    /\ Cardinality(RowsAtSmallest) = 2
    /\ \E i \in 1..Len(raw_scores) :
        /\ raw_scores[i] = SmallestRaw
        /\ transformed_scores[i].num > 0
        /\ raw_scores[i] # LargestRaw

=============================================================================
